---- MODULE Spec2Model ----
(***************************************************************************)
(* Model of chat_downloader/sites/reddit.py (RedditChatDownloader):        *)
(*   get_chat_by_stream_id  - resolves a stream id to a Chat object        *)
(*   _try_get_info          - the HTTP request loop of one logical attempt *)
(*   _get_chat_messages_by_socket - the generator that reads the websocket *)
(* Python values: an optional value is None (<<>>) or Some(v) (<<v>>);     *)
(* a Python str whose characters matter is a sequence of 1-char strings.   *)
(***************************************************************************)
EXTENDS Integers, Sequences, FiniteSets, TLC

\* ------------------------------------------------------------------ bounds
\* largest value of params['max_attempts'] explored
MaxAttempts == 2
\* largest number of ws.recv_data() calls explored in one run
MaxRecv == 3
\* largest number of entries in the list of a broadcasts response
MaxStreams == 2

\* ------------------------------------------------------- python primitives
None == <<>>
Some(v) == <<v>>
IsNone(o) == o = <<>>

\* str.startswith
startswith(s, prefix) ==
    /\ Len(s) >= Len(prefix)
    /\ SubSeq(s, 1, Len(prefix)) = prefix

\* the characters of the Basic Latin and Latin-1 Supplement blocks (U+0000
\* to U+00FF) that str.lower changes, and what it changes each one to; the
\* texts of the model are written in these two blocks, where str.lower
\* maps character by character
UpperCase ==
    <<"A", "B", "C", "D", "E", "F", "G", "H", "I", "J", "K", "L", "M",
      "N", "O", "P", "Q", "R", "S", "T", "U", "V", "W", "X", "Y", "Z",
      "À", "Á", "Â", "Ã", "Ä", "Å", "Æ", "Ç", "È", "É", "Ê", "Ë", "Ì",
      "Í", "Î", "Ï", "Ð", "Ñ", "Ò", "Ó", "Ô", "Õ", "Ö", "Ø", "Ù", "Ú",
      "Û", "Ü", "Ý", "Þ">>
LowerCase ==
    <<"a", "b", "c", "d", "e", "f", "g", "h", "i", "j", "k", "l", "m",
      "n", "o", "p", "q", "r", "s", "t", "u", "v", "w", "x", "y", "z",
      "à", "á", "â", "ã", "ä", "å", "æ", "ç", "è", "é", "ê", "ë", "ì",
      "í", "î", "ï", "ð", "ñ", "ò", "ó", "ô", "õ", "ö", "ø", "ù", "ú",
      "û", "ü", "ý", "þ">>

\* str.lower on one character of U+0000 to U+00FF
LowerChar(c) ==
    IF \E k \in 1..Len(UpperCase) : UpperCase[k] = c
    THEN LowerCase[CHOOSE k \in 1..Len(UpperCase) : UpperCase[k] = c]
    ELSE c

\* str.lower on a text of characters of U+0000 to U+00FF
lower(s) == [i \in 1..Len(s) |-> LowerChar(s[i])]

\* the `in` operator on two str values: sub in s
str_in(sub, s) ==
    \E i \in 1..(Len(s) - Len(sub) + 1) : SubSeq(s, i, i + Len(sub) - 1) = sub

\* truthiness of an optional str (None and '' are falsy)
TruthyStr(o) == o # None /\ o[1] # <<>>

\* truthiness of an optional number (None and 0 are falsy)
TruthyNum(o) == o # None /\ o[1] # 0

\* truthiness of an optional bool
TruthyBool(o) == o # None /\ o[1] = TRUE

\* truthiness of an optional dict given as a record of optional fields
\* (a dict with no key present is the empty dict, which is falsy)
TruthyDict(o) == o # None /\ \E k \in DOMAIN o[1] : o[1][k] # None

\* a or b on optional values, given a's truthiness
py_or(truthy, a, b) == IF truthy THEN a ELSE b

\* ------------------------------------------------ utils.core (not in src/)
\* attempts(max_attempts): the attempt numbers 1..max_attempts
attempts(max_attempts) == 1..max_attempts

\* BaseChatDownloader.retry raises RetriesExceeded once the attempt number
\* has reached max_attempts, and otherwise sleeps and returns
retry_raises(attempt_number, max_attempts) == attempt_number >= max_attempts

\* ---------------------------------------------------------------- strings
WSS == <<"w", "s", "s", ":", "/", "/">>
URL_WSS == <<"w", "s", "s", ":", "/", "/", "h">>
URL_WS == <<"w", "s", ":", "/", "/", "h">>
URL_EMPTY == <<>>
WAIT == <<"w", "a", "i", "t">>
MSG_WAIT == <<"p", "l", "s", " ", "w", "a", "i", "t">>
MSG_WAIT_UPPER == <<"W", "A", "I", "T", " ", "1", "s">>
MSG_BANNED == <<"b", "a", "n">>
MSG_NEAR == <<"w", "a", "i">>

API_TEMPLATE == "https://strapi.reddit.com/videos/t3_{}"
FALLBACK_API_TEMPLATE == "https://gateway.reddit.com/desktopapi/v1/postcomments/t3_{}?limit=1"

\* ------------------------------------------------------- provider payloads
\* a dict of post/stream fields; every key is optional
SubDict(cd, title, state, publish_at, created, url) ==
    [chat_disabled |-> cd, title |-> title, state |-> state,
     publish_at |-> publish_at, created |-> created,
     liveCommentsWebsocket |-> url]

\* the `data` dict of a response: the same keys plus the post and stream
\* sub-dicts
DataDict(cd, post, stream, title, state, publish_at, created, url) ==
    [chat_disabled |-> cd, post |-> post, stream |-> stream,
     title |-> title, state |-> state,
     publish_at |-> publish_at, created |-> created,
     liveCommentsWebsocket |-> url]

ChatDisabledValues == {None, Some(FALSE), Some(TRUE)}
StateValues == {Some("IS_LIVE"), Some("ENDED")}
UrlValues == {None, Some(URL_EMPTY), Some(URL_WSS), Some(URL_WS)}
\* <<publish_at, created>>
TimeValues == {<<None, None>>, <<Some(7), Some(3)>>, <<None, Some(3)>>}

\* data with separate post and stream sub-dicts (primary endpoint schema);
\* cdPost is a chat_disabled key placed inside the post sub-dict
NestedData ==
    { DataDict(cd,
               Some(SubDict(cdPost, Some("T"), None, None, None, url)),
               Some(SubDict(None, None, st, t[1], t[2], None)),
               None, None, None, None, None) :
        cd \in {None, Some(TRUE)}, cdPost \in {None, Some(TRUE)},
        st \in StateValues, url \in UrlValues, t \in TimeValues }

\* data as one flat record (fallback endpoint schema)
FlatData ==
    { DataDict(cd, None, None, Some("T"), st, t[1], t[2], url) :
        cd \in ChatDisabledValues, st \in StateValues \cup {None},
        url \in UrlValues, t \in TimeValues }

EmptyData == DataDict(None, None, None, None, None, None, None, None)

\* a deserialized response: status, status_message and data are the keys
\* read on the primary endpoint, posts is posts['t3_<id>'] read on the
\* fallback endpoint; data is None, <<"str", s>> or <<"dict", d>>
Payload(status, status_message, data, posts) ==
    [status |-> status, status_message |-> status_message,
     data |-> data, posts |-> posts]

SuccessPayloads ==
    { Payload(Some("success"), None, <<"dict", d>>, None) :
        d \in NestedData \cup FlatData }

FailurePayloads ==
    { Payload(Some("failure"), None, <<"str", m>>, None) :
        m \in {MSG_WAIT, MSG_WAIT_UPPER, MSG_BANNED, MSG_NEAR} }

OtherPayloads ==
    { Payload(Some("video not found"), Some("gone"), None, None),
      Payload(Some("error"), None, None, None),
      Payload(None, None, None, None) }

PostsPayloads ==
    { Payload(None, None, None, Some(d)) : d \in FlatData \cup {EmptyData} }

Payloads == SuccessPayloads \cup FailurePayloads \cup OtherPayloads
                \cup PostsPayloads

\* -------------------------------------------------------------- exceptions
\* an exception: its class, the message format and the formatted value
Exc(cls, fmt, arg) == [cls |-> cls, fmt |-> fmt, arg |-> arg]

\* one observable I/O effect, kept in order of occurrence:
\*   request  n = attempt_number, arg = <<url template, reply>>, reply is
\*            Some(payload) or None when the request raised
\*   sleep    n = attempt number handed to retry
\*   connect  n = attempt number of create_connection, arg = <<url, ok>>
\*   close    n = socket id
\*   recv     n = socket id, arg = <<what recv_data produced>>
\*   yield    n = socket id, arg = <<record>>
Event(ev, n, arg) == [ev |-> ev, n |-> n, arg |-> arg]

VARIABLES
    max_attempts,    \* params['max_attempts']
    pc,              \* get_chat_by_stream_id: "request", "returned", "raised"
    attempt_number,  \* argument of get_chat_by_stream_id
    info_attempt,    \* attempt_number of the loop in _try_get_info
    initial_info,    \* last deserialized response, None before the first
    raised,          \* exception that left get_chat_by_stream_id, or None
    chat_item,       \* the Chat returned, or None
    socket_url,      \* argument of _get_chat_messages_by_socket
    gen_pc,          \* generator: "none", "created", "connecting", "recv",
                     \*            "yielded", "finished"
    in_try,          \* generator is inside the try block (line 253)
    conn_attempt,    \* attempt_number of the loop in create_connection
    ws,              \* id of the socket bound to ws, 0 when unbound
    open_sockets,    \* ids of the sockets that are open
    nsockets,        \* number of sockets created so far
    gen_raised,      \* exception that left the generator, or None
    trace,           \* I/O effects so far
    urls_pc,         \* generator of generate_urls: "none", "created",
                     \*   "request", "yielded", "finished", "closed"
    urls_attempt,    \* attempt_number of the loop in generate_urls
    urls_requests,   \* number of requests sent to _BROADCAST_API_URL
    urls_failures,   \* number of them that raised or had no list in data
    urls_message,    \* the text handed to retry last, or None
    urls_data,       \* the list bound to data at the break, or None
    urls_yielded,    \* the values yielded so far
    urls_raised      \* exception that left generate_urls, or None

vars == <<max_attempts, pc, attempt_number, info_attempt, initial_info,
          raised, chat_item, socket_url, gen_pc, in_try, conn_attempt, ws,
          open_sockets, nsockets, gen_raised, trace, urls_pc, urls_attempt,
          urls_requests, urls_failures, urls_message, urls_data, urls_yielded,
          urls_raised>>

urls_vars == <<urls_pc, urls_attempt, urls_requests, urls_failures,
               urls_message, urls_data, urls_yielded, urls_raised>>

resolver_vars == <<pc, attempt_number, info_attempt, initial_info, raised,
                   chat_item, socket_url>>
consumer_vars == <<gen_pc, in_try, conn_attempt, ws, open_sockets, nsockets,
                   gen_raised>>

\* --------------------------------------------------- get_chat_by_stream_id
\* the parity test inverted
fallback_inverted(n) == n % 2 = 0

\* line 166
fallback(n) == n % 2 = 1

\* lines 168-180: the URL handed to _try_get_info
endpoint(n) == IF ~fallback(n) THEN API_TEMPLATE ELSE FALLBACK_API_TEMPLATE

\* lines 174 and 182: data
read_data(info, fb) ==
    IF ~fb THEN info.data
    ELSE IF info.posts = None THEN None ELSE <<"dict", info.posts[1]>>

\* lines 172 and 183: status
read_status(info, fb) ==
    IF ~fb THEN info.status
    ELSE IF TruthyDict(info.posts) THEN Some("success") ELSE None

\* line 190: data.get('post') or data
post_info(d) == IF TruthyDict(d.post) THEN d.post[1] ELSE d

\* line 191: data.get('stream') or data
stream_info(d) == IF TruthyDict(d.stream) THEN d.stream[1] ELSE d

\* line 186: data.get('chat_disabled')
chat_disabled(d) == d.chat_disabled

\* line 196
is_live(d, fb) == stream_info(d).state = Some("IS_LIVE") \/ fb

\* lines 197-198, before the multiplication: publish_at or created
start_seconds(d) ==
    py_or(TruthyNum(stream_info(d).publish_at),
          stream_info(d).publish_at, stream_info(d).created)

Raise(e) == [kind |-> "raise", exc |-> Some(e), chat |-> None, url |-> None]
Return(c, u) == [kind |-> "return", exc |-> None, chat |-> Some(c), url |-> u]
Recurse == [kind |-> "recurse", exc |-> None, chat |-> None, url |-> None]

\* lines 185-217: the branch status == 'success', data is the dict d
on_success(d, fb) ==
    IF TruthyBool(chat_disabled(d))
    THEN Raise(Exc("ChatDisabled", "Chat is disabled for this stream.", None))
    ELSE IF start_seconds(d) = None
    THEN Raise(Exc("TypeError", "unsupported operand type(s) for *", None))
    ELSE IF is_live(d, fb) /\ TruthyStr(post_info(d).liveCommentsWebsocket)
    THEN IF ~startswith(post_info(d).liveCommentsWebsocket[1], WSS)
         THEN Raise(Exc("RedditError", "Invalid websocket URL: {}",
                        post_info(d).liveCommentsWebsocket))
         ELSE Return([title |-> post_info(d).title,
                      is_live |-> is_live(d, fb),
                      start_time |-> start_seconds(d)[1] * 1000],
                     post_info(d).liveCommentsWebsocket)
    ELSE Raise(Exc("RedditError",
                   "Video ended. Chat replay not implemented yet.", None))

\* the 'wait' test without lower()
on_failure_case_sensitive(m, n, max) ==
    IF str_in(WAIT, m)
    THEN IF retry_raises(n, max)
         THEN Raise(Exc("RetriesExceeded",
                        "Maximum number of retries has been reached ({}).",
                        Some(max)))
         ELSE Recurse
    ELSE Raise(Exc("RedditError", "{}", Some(m)))

\* every failure retried, whatever its message
on_failure_always_retry(m, n, max) ==
    IF retry_raises(n, max)
    THEN Raise(Exc("RetriesExceeded",
                   "Maximum number of retries has been reached ({}).",
                   Some(max)))
    ELSE Recurse

\* lines 219-226: the branch status == 'failure', data is the str m
on_failure(m, n, max) ==
    IF str_in(WAIT, lower(m))
    THEN IF retry_raises(n, max)
         THEN Raise(Exc("RetriesExceeded",
                        "Maximum number of retries has been reached ({}).",
                        Some(max)))
         ELSE Recurse
    ELSE Raise(Exc("RedditError", "{}", Some(m)))

\* lines 185-232: what one call does with the response info
interpret(info, n, max) ==
    LET fb == fallback(n)
        status == read_status(info, fb)
        data == read_data(info, fb)
    IN  IF status = Some("success")
        THEN IF data # None /\ data[1] = "dict"
             THEN on_success(data[2], fb)
             ELSE Raise(Exc("AttributeError", "no attribute 'get'", None))
        ELSE IF status = Some("failure")
        THEN IF data # None /\ data[1] = "str"
             THEN on_failure(data[2], n, max)
             ELSE Raise(Exc("AttributeError", "no attribute 'lower'", None))
        ELSE IF status = Some("video not found")
        THEN Raise(Exc("VideoNotFound", "{}", info.status_message))
        ELSE Raise(Exc("UnexpectedError", "{}", Some(info)))

\* ----------------------------------------------------------- feed frames
\* the list with one more type in it
KNOWN_MESSAGE_TYPES_with_ping == {"new_comment", "delete_comment",
                                  "remove_comment", "update_comment_score",
                                  "ping"}

KNOWN_MESSAGE_TYPES == {"new_comment", "delete_comment",
                        "remove_comment", "update_comment_score"}

REDDIT_HOMEPAGE == "https://www.reddit.com"

\* a comment payload; every key is optional
CommentPayload(author, body, created_utc) ==
    [author |-> author, body |-> body, created_utc |-> created_utc]

PAYLOAD_A == CommentPayload(Some("alice"), Some("hi"), Some(2))
PAYLOAD_B == CommentPayload(None, None, Some(1))

\* the text of a frame, as its JSON tokens
FrameText(type, payload) == <<"{", "type", type, "payload", payload, "}">>

RAW_NEW == FrameText("new_comment", PAYLOAD_A)
RAW_DELETE == FrameText("delete_comment", PAYLOAD_B)
RAW_UNKNOWN == FrameText("ping", PAYLOAD_B)
RAW_TRUNCATED == <<"{", "type">>
\* an object without a type key
RAW_NOTYPE == <<"{", "payload", PAYLOAD_B, "}">>

RawFrames == {RAW_NEW, RAW_DELETE, RAW_UNKNOWN, RAW_NOTYPE, RAW_TRUNCATED}

\* json.loads on an object text: ok is FALSE where it raises JSONDecodeError,
\* and otherwise value is the dict (the last occurrence of a key wins)
json_loads(raw) ==
    LET n == (Len(raw) - 2) \div 2
        wellformed == /\ Len(raw) >= 2
                      /\ raw[1] = "{"
                      /\ raw[Len(raw)] = "}"
                      /\ (Len(raw) - 2) % 2 = 0
        last(k) == CHOOSE i \in 1..n :
                      /\ raw[2 * i] = k
                      /\ \A j \in 1..n : raw[2 * j] = k => j <= i
    IN  IF wellformed
        THEN [ok |-> TRUE,
              value |-> [k \in {raw[2 * i] : i \in 1..n} |->
                            raw[2 * last(k) + 1]]]
        ELSE [ok |-> FALSE, value |-> <<>>]

\* dict.get(key)
dict_get(d, key) == IF key \in DOMAIN d THEN Some(d[key]) ELSE None

\* int_or_none(x, default) on an int
int_or_none(x) == x

\* the transform to milliseconds
remap_timestamp_millis(x) == int_or_none(x) * 1000

\* line 95: the transform of created_utc
remap_timestamp(x) == int_or_none(x) * 1000000

\* lines 131-142: _parse_item on the keys author, body and created_utc
\* ('author' is renamed author_name, which _move_to_dict moves to
\* author['name']; author_display_name is set when that name is truthy)
parse_item(item) ==
    [author |-> IF item.author = None THEN None
                ELSE Some([name |-> item.author[1]]),
     message |-> item.body,
     timestamp |-> IF item.created_utc = None THEN None
                   ELSE Some(remap_timestamp(item.created_utc[1])),
     author_display_name |-> IF item.author = None \/ item.author[1] = ""
                             THEN None
                             ELSE item.author]

\* lines 264-265
make_record(payload, message_type) ==
    [info |-> parse_item(payload), message_type |-> message_type]

\* lines 257-271: what one received frame text leads to
handle_frame(raw) ==
    LET loaded == json_loads(raw)
        message_type == dict_get(loaded.value, "type")
        payload == dict_get(loaded.value, "payload")
    IN  IF ~loaded.ok
        THEN [kind |-> "raise", cls |-> "JSONDecodeError", record |-> None]
        ELSE IF message_type # None /\ message_type[1] \in KNOWN_MESSAGE_TYPES
        THEN IF payload = None
             THEN [kind |-> "raise", cls |-> "TypeError", record |-> None]
             ELSE [kind |-> "yield", cls |-> "",
                   record |-> Some(make_record(payload[1], message_type[1]))]
        ELSE [kind |-> "skip", cls |-> "", record |-> None]

\* number of events of one kind so far
CountEv(t, ev) == Cardinality({i \in 1..Len(t) : t[i].ev = ev})

\* ------------------------------------------------------------------- Init
\* get_chat_by_stream_id(stream_id, params) has just been called: it is
\* inside _try_get_info, about to send the first request
\* generate_urls has not been called
UrlsNotCalled ==
    /\ urls_pc = "none"
    /\ urls_attempt = 0
    /\ urls_requests = 0
    /\ urls_failures = 0
    /\ urls_message = None
    /\ urls_data = None
    /\ urls_yielded = <<>>
    /\ urls_raised = None

Init ==
    /\ max_attempts \in 1..MaxAttempts
    /\ pc = "request"
    /\ attempt_number = 0
    /\ info_attempt = 1
    /\ initial_info = None
    /\ raised = None
    /\ chat_item = None
    /\ socket_url = None
    /\ gen_pc = "none"
    /\ in_try = FALSE
    /\ conn_attempt = 0
    /\ ws = 0
    /\ open_sockets = {}
    /\ nsockets = 0
    /\ gen_raised = None
    /\ trace = <<>>
    /\ UrlsNotCalled

RetriesExceeded(max) ==
    Exc("RetriesExceeded",
        "Maximum number of retries has been reached ({}).", Some(max))

\* ---------------------------------------------------------- _try_get_info
\* lines 152-156: _session_get_json raises JSONDecodeError or
\* RequestException; retry either raises RetriesExceeded or sleeps
TryGetInfoError ==
    /\ pc = "request"
    /\ info_attempt \in attempts(max_attempts)
    /\ LET sent == Append(trace, Event("request", attempt_number,
                                       <<endpoint(attempt_number), None>>))
       IN  IF retry_raises(info_attempt, max_attempts)
           THEN /\ raised' = Some(RetriesExceeded(max_attempts))
                /\ pc' = "raised"
                /\ trace' = sent
                /\ UNCHANGED info_attempt
           ELSE /\ trace' = Append(sent, Event("sleep", info_attempt,
                                               <<"error">>))
                /\ info_attempt' = info_attempt + 1
                /\ UNCHANGED <<raised, pc>>
    /\ UNCHANGED <<max_attempts, attempt_number, initial_info, chat_item,
                   socket_url>>
    /\ UNCHANGED consumer_vars
    /\ UNCHANGED urls_vars

\* lines 154, 185-232: the request returns info and the call raises
GetChatRaises(info) ==
    /\ pc = "request"
    /\ info_attempt \in attempts(max_attempts)
    /\ interpret(info, attempt_number, max_attempts).kind = "raise"
    /\ trace' = Append(trace, Event("request", attempt_number,
                                    <<endpoint(attempt_number), Some(info)>>))
    /\ initial_info' = Some(info)
    /\ raised' = interpret(info, attempt_number, max_attempts).exc
    /\ pc' = "raised"
    /\ UNCHANGED <<max_attempts, attempt_number, info_attempt, chat_item,
                   socket_url>>
    /\ UNCHANGED consumer_vars
    /\ UNCHANGED urls_vars

\* the return that runs the generator up to its first create_connection
GetChatReturnsConnected(info) ==
    /\ pc = "request"
    /\ info_attempt \in attempts(max_attempts)
    /\ interpret(info, attempt_number, max_attempts).kind = "return"
    /\ trace' = trace \o
                 << Event("request", attempt_number,
                          <<endpoint(attempt_number), Some(info)>>),
                    Event("connect", 1,
                          <<interpret(info, attempt_number,
                                      max_attempts).url, TRUE>>) >>
    /\ initial_info' = Some(info)
    /\ chat_item' = interpret(info, attempt_number, max_attempts).chat
    /\ socket_url' = interpret(info, attempt_number, max_attempts).url
    /\ gen_pc' = "recv"
    /\ in_try' = TRUE
    /\ conn_attempt' = 1
    /\ ws' = nsockets + 1
    /\ nsockets' = nsockets + 1
    /\ open_sockets' = open_sockets \cup {nsockets + 1}
    /\ pc' = "returned"
    /\ UNCHANGED <<max_attempts, attempt_number, info_attempt, raised>>
    /\ UNCHANGED gen_raised
    /\ UNCHANGED urls_vars

\* lines 154, 208-214: the request returns info and the call returns the
\* Chat, whose chat attribute is the generator object (its body has not
\* started to run)
GetChatReturns(info) ==
    /\ pc = "request"
    /\ info_attempt \in attempts(max_attempts)
    /\ interpret(info, attempt_number, max_attempts).kind = "return"
    /\ trace' = Append(trace, Event("request", attempt_number,
                                    <<endpoint(attempt_number), Some(info)>>))
    /\ initial_info' = Some(info)
    /\ chat_item' = interpret(info, attempt_number, max_attempts).chat
    /\ socket_url' = interpret(info, attempt_number, max_attempts).url
    /\ gen_pc' = "created"
    /\ pc' = "returned"
    /\ UNCHANGED <<max_attempts, attempt_number, info_attempt, raised>>
    /\ UNCHANGED <<in_try, conn_attempt, ws, open_sockets, nsockets,
                   gen_raised>>
    /\ UNCHANGED urls_vars

\* lines 154, 219-224: the request returns info, retry sleeps and the
\* function calls itself with attempt_number + 1
GetChatRetries(info) ==
    /\ pc = "request"
    /\ info_attempt \in attempts(max_attempts)
    /\ interpret(info, attempt_number, max_attempts).kind = "recurse"
    /\ trace' = trace \o
                 << Event("request", attempt_number,
                          <<endpoint(attempt_number), Some(info)>>),
                    Event("sleep", attempt_number, <<"text">>) >>
    /\ initial_info' = Some(info)
    /\ attempt_number' = attempt_number + 1
    /\ info_attempt' = 1
    /\ UNCHANGED <<max_attempts, pc, raised, chat_item, socket_url>>
    /\ UNCHANGED consumer_vars
    /\ UNCHANGED urls_vars

\* ---------------------------------------- _get_chat_messages_by_socket
\* the end of the generator without the close of line 284
FinallyWithoutClose(t, exc) ==
    /\ trace' = t
    /\ UNCHANGED open_sockets
    /\ gen_raised' = exc
    /\ gen_pc' = "finished"

\* the finally block (line 284) followed by the end of the generator
Finally(t, exc) ==
    /\ trace' = Append(t, Event("close", ws, None))
    /\ open_sockets' = open_sockets \ {ws}
    /\ gen_raised' = exc
    /\ gen_pc' = "finished"

\* the caller asks for the next record: the body starts (line 236) or
\* resumes after the yield (line 267)
CallerNext ==
    /\ gen_pc \in {"created", "yielded"}
    /\ IF gen_pc = "created"
       THEN /\ gen_pc' = "connecting"
            /\ conn_attempt' = 1
       ELSE /\ gen_pc' = "recv"
            /\ UNCHANGED conn_attempt
    /\ UNCHANGED <<in_try, ws, open_sockets, nsockets, gen_raised, trace>>
    /\ UNCHANGED max_attempts
    /\ UNCHANGED resolver_vars
    /\ UNCHANGED urls_vars

\* the caller stops consuming: generator.close() raises GeneratorExit at
\* the yield, or marks a generator that never ran as finished
CallerClose ==
    /\ gen_pc \in {"created", "yielded"}
    /\ IF gen_pc = "created"
       THEN /\ gen_pc' = "finished"
            /\ UNCHANGED <<open_sockets, gen_raised, trace>>
       ELSE Finally(trace, None)
    /\ UNCHANGED <<in_try, conn_attempt, ws, nsockets>>
    /\ UNCHANGED max_attempts
    /\ UNCHANGED resolver_vars
    /\ UNCHANGED urls_vars

\* an exception class is given by its method resolution order, the class
\* first: an except clause catches it when the class named in the clause is
\* anywhere in that order
IsInstance(mro, names) == \E k \in 1..Len(mro) : mro[k] \in names

\* line 273: except websocket.WebSocketTimeoutException
caught_as_timeout(mro) == IsInstance(mro, {"WebSocketTimeoutException"})

\* line 276: except (ConnectionError, websocket.WebSocketException)
caught_as_connection_error(mro) ==
    IsInstance(mro, {"ConnectionError", "WebSocketException"})

\* the class of the exception the caller sees when one of class mro leaves
\* the generator: a StopIteration is replaced by RuntimeError (PEP 479)
leaves_as(mro) ==
    IF IsInstance(mro, {"StopIteration"}) THEN "RuntimeError" ELSE mro[1]

\* the consuming code raises an exception of class mro into the generator.
\* Before the first next() the body has not started and the exception ends
\* the generator. At the yield (line 267) the handlers of the inner try
\* apply: a timeout is passed over (lines 273-274) and the loop receives
\* again, a connection-class exception closes the socket and reconnects
\* (lines 276-281), any other one leaves through the finally block
CallerThrow(mro) ==
    /\ gen_pc \in {"created", "yielded"}
    /\ IF gen_pc = "created"
       THEN /\ gen_pc' = "finished"
            /\ gen_raised' = Some(Exc(leaves_as(mro), "", None))
            /\ UNCHANGED <<conn_attempt, open_sockets, trace>>
       ELSE IF caught_as_timeout(mro)
       THEN /\ gen_pc' = "recv"
            /\ UNCHANGED <<conn_attempt, open_sockets, gen_raised, trace>>
       ELSE IF caught_as_connection_error(mro)
       THEN /\ trace' = Append(trace, Event("close", ws, None))
            /\ open_sockets' = open_sockets \ {ws}
            /\ conn_attempt' = 1
            /\ gen_pc' = "connecting"
            /\ UNCHANGED gen_raised
       ELSE /\ Finally(trace, Some(Exc(leaves_as(mro), "", None)))
            /\ UNCHANGED conn_attempt
    /\ UNCHANGED <<in_try, ws, nsockets>>
    /\ UNCHANGED max_attempts
    /\ UNCHANGED resolver_vars
    /\ UNCHANGED urls_vars

\* lines 241-247: websocket.create_connection returns a socket
CreateConnectionOk ==
    /\ gen_pc = "connecting"
    /\ conn_attempt \in attempts(max_attempts)
    /\ trace' = Append(trace, Event("connect", conn_attempt,
                                    <<socket_url, TRUE>>))
    /\ nsockets' = nsockets + 1
    /\ ws' = nsockets + 1
    /\ open_sockets' = open_sockets \cup {nsockets + 1}
    /\ in_try' = TRUE
    /\ gen_pc' = "recv"
    /\ UNCHANGED <<conn_attempt, gen_raised>>
    /\ UNCHANGED max_attempts
    /\ UNCHANGED resolver_vars
    /\ UNCHANGED urls_vars

\* lines 241-249: websocket.create_connection raises ConnectionError or
\* WebSocketException; retry either raises RetriesExceeded, which leaves
\* the generator (through the finally block when the call is the one of
\* line 281), or sleeps
CreateConnectionError ==
    /\ gen_pc = "connecting"
    /\ conn_attempt \in attempts(max_attempts)
    /\ LET tried == Append(trace, Event("connect", conn_attempt,
                                        <<socket_url, FALSE>>))
       IN  IF retry_raises(conn_attempt, max_attempts)
           THEN /\ IF in_try
                   THEN Finally(tried, Some(RetriesExceeded(max_attempts)))
                   ELSE /\ trace' = tried
                        /\ gen_raised' = Some(RetriesExceeded(max_attempts))
                        /\ gen_pc' = "finished"
                        /\ UNCHANGED open_sockets
                /\ UNCHANGED conn_attempt
           ELSE /\ trace' = Append(tried, Event("sleep", conn_attempt,
                                                <<"error">>))
                /\ conn_attempt' = conn_attempt + 1
                /\ UNCHANGED <<gen_pc, gen_raised, open_sockets>>
    /\ UNCHANGED <<in_try, ws, nsockets>>
    /\ UNCHANGED max_attempts
    /\ UNCHANGED resolver_vars
    /\ UNCHANGED urls_vars

CanRecv ==
    /\ gen_pc = "recv"
    /\ CountEv(trace, "recv") < MaxRecv

\* the timeout handled by the clause of line 276 (WebSocketTimeoutException
\* is a WebSocketException): close and reconnect
RecvTimeoutReconnects ==
    /\ CanRecv
    /\ trace' = trace \o << Event("recv", ws, <<"timeout">>),
                            Event("close", ws, None) >>
    /\ open_sockets' = open_sockets \ {ws}
    /\ conn_attempt' = 1
    /\ gen_pc' = "connecting"
    /\ UNCHANGED <<in_try, ws, nsockets, gen_raised>>
    /\ UNCHANGED max_attempts
    /\ UNCHANGED resolver_vars
    /\ UNCHANGED urls_vars

\* lines 256, 273-274: recv_data raises WebSocketTimeoutException
RecvTimeout ==
    /\ CanRecv
    /\ trace' = Append(trace, Event("recv", ws, <<"timeout">>))
    /\ UNCHANGED consumer_vars
    /\ UNCHANGED max_attempts
    /\ UNCHANGED resolver_vars
    /\ UNCHANGED urls_vars

\* the loop that emits the record of a frame twice
RecvFrameYieldsTwice(raw) ==
    /\ CanRecv
    /\ LET got == Append(trace, Event("recv", ws, <<"frame", raw>>))
           h == handle_frame(raw)
       IN  CASE h.kind = "yield" ->
                  /\ trace' = got \o << Event("yield", ws, h.record),
                                        Event("yield", ws, h.record) >>
                  /\ gen_pc' = "yielded"
                  /\ UNCHANGED <<open_sockets, gen_raised>>
             [] h.kind = "skip" ->
                  /\ trace' = got
                  /\ UNCHANGED <<gen_pc, open_sockets, gen_raised>>
             [] h.kind = "raise" ->
                  Finally(got, Some(Exc(h.cls, "", None)))
    /\ UNCHANGED <<in_try, conn_attempt, ws, nsockets>>
    /\ UNCHANGED max_attempts
    /\ UNCHANGED resolver_vars
    /\ UNCHANGED urls_vars

\* lines 256-271: recv_data returns the frame text raw
RecvFrame(raw) ==
    /\ CanRecv
    /\ LET got == Append(trace, Event("recv", ws, <<"frame", raw>>))
           h == handle_frame(raw)
       IN  CASE h.kind = "yield" ->
                  /\ trace' = Append(got, Event("yield", ws, h.record))
                  /\ gen_pc' = "yielded"
                  /\ UNCHANGED <<open_sockets, gen_raised>>
             [] h.kind = "skip" ->
                  /\ trace' = got
                  /\ UNCHANGED <<gen_pc, open_sockets, gen_raised>>
             [] h.kind = "raise" ->
                  Finally(got, Some(Exc(h.cls, "", None)))
    /\ UNCHANGED <<in_try, conn_attempt, ws, nsockets>>
    /\ UNCHANGED max_attempts
    /\ UNCHANGED resolver_vars
    /\ UNCHANGED urls_vars

\* the connection-class error left uncaught: it leaves the generator
\* through the finally block
RecvConnectionErrorUncaught ==
    /\ CanRecv
    /\ Finally(Append(trace, Event("recv", ws, <<"ConnectionError">>)),
               Some(Exc("ConnectionError", "", None)))
    /\ UNCHANGED <<in_try, conn_attempt, ws, nsockets>>
    /\ UNCHANGED max_attempts
    /\ UNCHANGED resolver_vars
    /\ UNCHANGED urls_vars

\* the reconnect that leaves the stale socket open
RecvConnectionErrorLeavesOpen ==
    /\ CanRecv
    /\ trace' = Append(trace, Event("recv", ws, <<"ConnectionError">>))
    /\ conn_attempt' = 1
    /\ gen_pc' = "connecting"
    /\ UNCHANGED <<in_try, ws, open_sockets, nsockets, gen_raised>>
    /\ UNCHANGED max_attempts
    /\ UNCHANGED resolver_vars
    /\ UNCHANGED urls_vars

\* the reconnect that goes on counting where the last create_connection
\* stopped
RecvConnectionErrorKeepsCount ==
    /\ CanRecv
    /\ trace' = trace \o << Event("recv", ws, <<"ConnectionError">>),
                            Event("close", ws, None) >>
    /\ open_sockets' = open_sockets \ {ws}
    /\ gen_pc' = "connecting"
    /\ UNCHANGED <<in_try, conn_attempt, ws, nsockets, gen_raised>>
    /\ UNCHANGED max_attempts
    /\ UNCHANGED resolver_vars
    /\ UNCHANGED urls_vars

\* lines 256, 276-281: recv_data raises ConnectionError or another
\* WebSocketException; the socket is closed and create_connection starts
RecvConnectionError ==
    /\ CanRecv
    /\ trace' = trace \o << Event("recv", ws, <<"ConnectionError">>),
                            Event("close", ws, None) >>
    /\ open_sockets' = open_sockets \ {ws}
    /\ conn_attempt' = 1
    /\ gen_pc' = "connecting"
    /\ UNCHANGED <<in_try, ws, nsockets, gen_raised>>
    /\ UNCHANGED max_attempts
    /\ UNCHANGED resolver_vars
    /\ UNCHANGED urls_vars

\* line 256: recv_data is interrupted (KeyboardInterrupt), which no except
\* clause catches
RecvInterrupted ==
    /\ CanRecv
    /\ Finally(Append(trace, Event("recv", ws, <<"KeyboardInterrupt">>)),
               Some(Exc("KeyboardInterrupt", "", None)))
    /\ UNCHANGED <<in_try, conn_attempt, ws, nsockets>>
    /\ UNCHANGED max_attempts
    /\ UNCHANGED resolver_vars
    /\ UNCHANGED urls_vars

\* the classes the consuming code raises into the generator, each as its
\* method resolution order
ThrownClasses ==
    { <<"ConnectionError", "OSError", "Exception", "BaseException">>,
      <<"RemoteDisconnected", "ConnectionResetError", "ConnectionError",
        "OSError", "BadStatusLine", "HTTPException", "Exception",
        "BaseException">>,
      <<"WebSocketProtocolException", "WebSocketException", "Exception",
        "BaseException">>,
      <<"WebSocketTimeoutException", "WebSocketException", "Exception",
        "BaseException">>,
      <<"ValueError", "Exception", "BaseException">>,
      <<"StopIteration", "Exception", "BaseException">> }

\* get_chat_by_stream_id, and the generator it returns up to the first
\* socket
Next ==
    \/ TryGetInfoError
    \/ \E info \in Payloads : GetChatRaises(info)
    \/ \E info \in Payloads : GetChatReturns(info)
    \/ \E info \in Payloads : GetChatRetries(info)
    \/ CallerNext
    \/ CallerClose
    \/ CreateConnectionOk
    \/ CreateConnectionError

Spec == Init /\ [][Next]_vars

\* a response of the primary endpoint for a live stream
LIVE_INFO ==
    Payload(Some("success"), None,
            <<"dict",
              DataDict(None,
                       Some(SubDict(None, Some("T"), None, None, None,
                                    Some(URL_WSS))),
                       Some(SubDict(None, None, Some("IS_LIVE"), Some(7),
                                    Some(3), None)),
                       None, None, None, None, None)>>,
            None)

\* a response of the primary endpoint for a stream that has not started
SOFT_INFO == Payload(Some("failure"), None, <<"str", MSG_WAIT>>, None)

\* a response of the fallback endpoint with the post record of the stream
LIVE_POSTS ==
    Payload(None, None, None,
            Some(DataDict(None, None, None, Some("T"), Some("IS_LIVE"),
                          Some(7), Some(3), Some(URL_WSS))))

\* the replies of the provider for a stream that is live
FeedReplies == {LIVE_INFO, LIVE_POSTS}

\* get_chat_by_stream_id is about to send the request that the provider
\* answers with the live stream: its first request, or, when max_attempts
\* is 2, the request of the fallback attempt that follows one soft failure
FeedInit ==
    /\ max_attempts \in 1..MaxAttempts
    /\ pc = "request"
    /\ info_attempt = 1
    /\ raised = None
    /\ \/ /\ attempt_number = 0
          /\ initial_info = None
          /\ trace = <<>>
       \/ /\ attempt_number = 1
          /\ max_attempts = 2
          /\ initial_info = Some(SOFT_INFO)
          /\ trace = << Event("request", 0, <<endpoint(0), Some(SOFT_INFO)>>),
                        Event("sleep", 0, <<"text">>) >>
    /\ chat_item = None
    /\ socket_url = None
    /\ gen_pc = "none"
    /\ in_try = FALSE
    /\ conn_attempt = 0
    /\ ws = 0
    /\ open_sockets = {}
    /\ nsockets = 0
    /\ gen_raised = None
    /\ UrlsNotCalled

\* the last request of get_chat_by_stream_id, the generator of
\* _get_chat_messages_by_socket and its consumer
FeedNext ==
    \/ \E info \in FeedReplies : GetChatReturns(info)
    \/ CallerNext
    \/ CallerClose
    \/ \E mro \in ThrownClasses : CallerThrow(mro)
    \/ CreateConnectionOk
    \/ CreateConnectionError
    \/ RecvTimeout
    \/ \E raw \in RawFrames : RecvFrame(raw)
    \/ RecvConnectionError
    \/ RecvInterrupted

SpecFeed == FeedInit /\ [][FeedNext]_vars

\* ---------------------------------------------------------- generate_urls
\* line 291
URLS_MAX_ATTEMPTS == 30

\* an entry of the broadcasts list; the post key and its url key are
\* optional
Stream(post) == [post |-> post]
STREAM_A == Stream(Some([url |-> Some("https://www.reddit.com/rpan/r/a")]))
STREAM_B == Stream(Some([url |-> Some("https://www.reddit.com/rpan/r/b")]))
STREAM_NOPOST == Stream(None)
Streams == {STREAM_A, STREAM_B, STREAM_NOPOST}

\* the lists that the data key of a response may hold
StreamLists == UNION {[1..n -> Streams] : n \in 0..MaxStreams}

\* what info.get('data') gives when it is not a list: None for a missing
\* key, or a message
NotListData == {None, Some("Too many requests")}

\* multi_get(stream, 'post', 'url'): None where the path ends early
multi_get_post_url(stream) ==
    IF stream.post = None THEN None ELSE stream.post[1].url

chat_vars == <<max_attempts, resolver_vars, consumer_vars, trace>>

\* generate_urls() has been called: the generator exists and its body has
\* not started to run
UrlsInit ==
    /\ max_attempts = 1
    /\ pc = "request"
    /\ attempt_number = 0
    /\ info_attempt = 1
    /\ initial_info = None
    /\ raised = None
    /\ chat_item = None
    /\ socket_url = None
    /\ gen_pc = "none"
    /\ in_try = FALSE
    /\ conn_attempt = 0
    /\ ws = 0
    /\ open_sockets = {}
    /\ nsockets = 0
    /\ gen_raised = None
    /\ trace = <<>>
    /\ urls_pc = "created"
    /\ urls_attempt = 0
    /\ urls_requests = 0
    /\ urls_failures = 0
    /\ urls_message = None
    /\ urls_data = None
    /\ urls_yielded = <<>>
    /\ urls_raised = None

\* line 313: the for loop over data yields the entry after the ones
\* yielded so far, or ends the generator
YieldNextUrl(data, yielded) ==
    IF Len(yielded) < Len(data)
    THEN /\ urls_yielded' = Append(yielded,
                                   multi_get_post_url(data[Len(yielded) + 1]))
         /\ urls_pc' = "yielded"
    ELSE /\ urls_yielded' = yielded
         /\ urls_pc' = "finished"

\* next() of the caller: the first one enters the loop of line 293, a later
\* one resumes the for loop of line 312
UrlsCallerNext ==
    /\ urls_pc \in {"created", "yielded"}
    /\ IF urls_pc = "created"
       THEN /\ urls_pc' = "request"
            /\ urls_attempt' = 1
            /\ UNCHANGED urls_yielded
       ELSE /\ YieldNextUrl(urls_data[1], urls_yielded)
            /\ UNCHANGED urls_attempt
    /\ UNCHANGED <<urls_requests, urls_failures, urls_message, urls_data,
                   urls_raised>>
    /\ UNCHANGED chat_vars

\* close() of the caller on the generator
UrlsCallerClose ==
    /\ urls_pc \in {"created", "yielded"}
    /\ urls_pc' = "closed"
    /\ UNCHANGED <<urls_attempt, urls_requests, urls_failures, urls_message,
                   urls_data, urls_yielded, urls_raised>>
    /\ UNCHANGED chat_vars

\* line 305
RESPONSE_MESSAGE == "Response from Reddit: \"{}\""

\* line 310: retry, called with the text message, raises RetriesExceeded
\* or sleeps, and the loop goes on with the next attempt
UrlsRetry(message) ==
    /\ urls_requests' = urls_requests + 1
    /\ urls_message' = message
    /\ urls_failures' = urls_failures + 1
    /\ IF retry_raises(urls_attempt, URLS_MAX_ATTEMPTS)
       THEN /\ urls_raised' = Some(RetriesExceeded(URLS_MAX_ATTEMPTS))
            /\ urls_pc' = "finished"
            /\ UNCHANGED urls_attempt
       ELSE /\ urls_attempt' = urls_attempt + 1
            /\ UNCHANGED <<urls_pc, urls_raised>>
    /\ UNCHANGED <<urls_data, urls_yielded>>
    /\ UNCHANGED chat_vars

\* lines 298, 307-310: _session_get_json raises JSONDecodeError or
\* RequestException
UrlsRequestError ==
    /\ urls_pc = "request"
    /\ urls_attempt \in attempts(URLS_MAX_ATTEMPTS)
    /\ UrlsRetry(None)

\* lines 298-305, 310: the response has no list under data
UrlsRequestNotList(data) ==
    /\ urls_pc = "request"
    /\ urls_attempt \in attempts(URLS_MAX_ATTEMPTS)
    /\ UrlsRetry(Some(<<RESPONSE_MESSAGE, data>>))

\* the loop that starts after the first entry of the list
UrlsRequestListSkipsFirst(data) ==
    /\ urls_pc = "request"
    /\ urls_attempt \in attempts(URLS_MAX_ATTEMPTS)
    /\ urls_requests' = urls_requests + 1
    /\ urls_data' = Some(data)
    /\ IF Len(data) > 1
       THEN /\ urls_yielded' = << multi_get_post_url(data[2]) >>
            /\ urls_pc' = "yielded"
       ELSE /\ urls_yielded' = <<>>
            /\ urls_pc' = "finished"
    /\ urls_message' = None
    /\ UNCHANGED <<urls_attempt, urls_failures, urls_raised>>
    /\ UNCHANGED chat_vars

\* lines 298-303, 312-313: the response holds the list data; the loop
\* breaks and the for loop yields the first entry
UrlsRequestList(data) ==
    /\ urls_pc = "request"
    /\ urls_attempt \in attempts(URLS_MAX_ATTEMPTS)
    /\ urls_requests' = urls_requests + 1
    /\ urls_data' = Some(data)
    /\ YieldNextUrl(data, <<>>)
    /\ urls_message' = None
    /\ UNCHANGED <<urls_attempt, urls_failures, urls_raised>>
    /\ UNCHANGED chat_vars

UrlsNext ==
    \/ UrlsCallerNext
    \/ UrlsCallerClose
    \/ UrlsRequestError
    \/ \E data \in NotListData : UrlsRequestNotList(data)
    \/ \E data \in StreamLists : UrlsRequestList(data)

SpecUrls == UrlsInit /\ [][UrlsNext]_vars

TypeOK ==
    /\ pc \in {"request", "returned", "raised"}
    /\ gen_pc \in {"none", "created", "connecting", "recv", "yielded",
                   "finished"}
    /\ attempt_number \in 0..(MaxAttempts + 1)
    /\ open_sockets \subseteq 1..nsockets

\* FeedInit is a state get_chat_by_stream_id reaches
FeedInitReachable ==
    ~ /\ pc = "request"
      /\ attempt_number = 0
      /\ info_attempt = 1
      /\ initial_info = None
      /\ gen_pc = "none"
      /\ trace = <<>>

\* and so is its state that follows a soft failure
FeedInitRetriedReachable ==
    ~ /\ pc = "request"
      /\ max_attempts = 2
      /\ attempt_number = 1
      /\ info_attempt = 1
      /\ initial_info = Some(SOFT_INFO)
      /\ gen_pc = "none"
      /\ Len(trace) = 2
      /\ trace[1].arg[2] = Some(SOFT_INFO)

\* ------------------------------------------------- reading the I/O trace
IsRequest(e) == e.ev = "request"
RequestUrl(e) == e.arg[1]
HasReply(e) == IsRequest(e) /\ e.arg[2] # None
Reply(e) == e.arg[2][1]
Last(i) == i = Len(trace)

\* the request sent last
LastRequest ==
    trace[CHOOSE i \in 1..Len(trace) :
              /\ IsRequest(trace[i])
              /\ \A j \in (i + 1)..Len(trace) : ~IsRequest(trace[j])]

\* the status of the reply of request e as the resolver reads it: the
\* status key on the primary endpoint; on the fallback endpoint, whose
\* schema has no status key, success when the post record is there
StatusRead(e) ==
    IF e.n % 2 = 0 THEN Reply(e).status
    ELSE IF Reply(e).posts # None /\ Reply(e).posts[1] # EmptyData
         THEN Some("success") ELSE None

\* the data record of a success reply: data on the primary endpoint, the
\* post record on the fallback endpoint
DataRead(e) == IF e.n % 2 = 0 THEN Reply(e).data[2] ELSE Reply(e).posts[1]

IsSuccess(e) == HasReply(e) /\ StatusRead(e) = Some("success")

\* a failure reply whose message holds 'wait' in some letter case
IsSoftFailure(e) ==
    /\ HasReply(e)
    /\ StatusRead(e) = Some("failure")
    /\ Reply(e).data[2] \in {MSG_WAIT, MSG_WAIT_UPPER}

RaisedIs(cls, fmt) ==
    /\ pc = "raised"
    /\ raised # None
    /\ raised[1].cls = cls
    /\ raised[1].fmt = fmt

\* nothing of the feed exists: no generator, no socket, no connection
\* attempt
NoFeed ==
    /\ gen_pc = "none"
    /\ chat_item = None
    /\ nsockets = 0
    /\ CountEv(trace, "connect") = 0

\* -------------------------------------------------------------------- C1
\* C1: every metadata request of attempt n goes to the primary endpoint
\* when n is even and to the fallback endpoint when n is odd.
C1_EndpointParity ==
    \A i \in 1..Len(trace) :
        IsRequest(trace[i]) =>
            /\ trace[i].n % 2 = 0 => RequestUrl(trace[i]) = API_TEMPLATE
            /\ trace[i].n % 2 = 1 =>
                   RequestUrl(trace[i]) = FALLBACK_API_TEMPLATE

\* requests of an even and of an odd attempt have both been sent
C1_Witness ==
    /\ \E i \in 1..Len(trace) : IsRequest(trace[i]) /\ trace[i].n = 0
    /\ \E i \in 1..Len(trace) : IsRequest(trace[i]) /\ trace[i].n = 1

\* -------------------------------------------------------------------- C2
\* C2: a success reply whose chat_disabled flag is true, carried
\* in the post or stream sub-record on the primary endpoint or in the flat
\* record on the fallback endpoint, ends resolve with ChatDisabled and
\* nothing follows it.
C2_Original ==
    \A i \in 1..Len(trace) :
        ( /\ IsSuccess(trace[i])
          /\ IF trace[i].n % 2 = 0
             THEN \/ /\ DataRead(trace[i]).post # None
                     /\ DataRead(trace[i]).post[1].chat_disabled = Some(TRUE)
                  \/ /\ DataRead(trace[i]).stream # None
                     /\ DataRead(trace[i]).stream[1].chat_disabled
                            = Some(TRUE)
             ELSE DataRead(trace[i]).chat_disabled = Some(TRUE) )
        => /\ Last(i)
           /\ RaisedIs("ChatDisabled", "Chat is disabled for this stream.")
           /\ NoFeed

\* what line 186 does: only a true chat_disabled key of the data record
\* itself (data on the primary endpoint, the post record on the fallback
\* endpoint) ends resolve with ChatDisabled
C2_ChatDisabled ==
    \A i \in 1..Len(trace) :
        ( /\ IsSuccess(trace[i])
          /\ DataRead(trace[i]).chat_disabled = Some(TRUE) )
        => /\ Last(i)
           /\ RaisedIs("ChatDisabled", "Chat is disabled for this stream.")
           /\ NoFeed

\* ChatDisabled has been raised on a fallback attempt that followed a retry
C2_RaisedOnFallback ==
    /\ RaisedIs("ChatDisabled", "Chat is disabled for this stream.")
    /\ attempt_number = 1
    /\ initial_info[1].posts # None
    /\ initial_info[1].posts[1].chat_disabled = Some(TRUE)

\* -------------------------------------------------------------------- C3
\* C3: a failure reply whose message holds 'wait' (in any letter case),
\* received while the attempt counter is below max_attempts, is followed by
\* the retry policy and then by the request of attempt n + 1; it never ends
\* resolve with the RedditError that carries the message.
C3_SoftFailureRetries ==
    \A i \in 1..Len(trace) :
        (IsSoftFailure(trace[i]) /\ trace[i].n < max_attempts)
        => /\ i + 1 <= Len(trace)
           /\ trace[i + 1].ev = "sleep"
           /\ trace[i + 1].n = trace[i].n
           /\ IF i + 2 <= Len(trace)
              THEN /\ IsRequest(trace[i + 2])
                   /\ trace[i + 2].n = trace[i].n + 1
              ELSE /\ pc = "request"
                   /\ attempt_number = trace[i].n + 1
                   /\ info_attempt = 1
           /\ ~ RaisedIs("RedditError", "{}")

\* an upper-case WAIT reply has been retried and the request of the next
\* attempt has been sent
C3_Witness ==
    /\ Len(trace) >= 3
    /\ IsSoftFailure(trace[1])
    /\ Reply(trace[1]).data[2] = MSG_WAIT_UPPER
    /\ trace[2].ev = "sleep"
    /\ IsRequest(trace[3])
    /\ trace[3].n = 1

\* -------------------------------------------------------------------- C4
\* C4: a hard reply ends resolve on the attempt that received it, with no
\* retry and no further request: failure without 'wait' raises RedditError
\* with the message, 'video not found' raises VideoNotFound, any other
\* status that is not success raises UnexpectedError with the whole reply.
C4_HardFailure ==
    \A i \in 1..Len(trace) :
        (HasReply(trace[i]) /\ ~IsSuccess(trace[i]) /\ ~IsSoftFailure(trace[i]))
        => /\ Last(i)
           /\ NoFeed
           /\ attempt_number = trace[i].n
           /\ CASE StatusRead(trace[i]) = Some("failure") ->
                     /\ RaisedIs("RedditError", "{}")
                     /\ raised[1].arg = Some(Reply(trace[i]).data[2])
                [] StatusRead(trace[i]) = Some("video not found") ->
                     /\ RaisedIs("VideoNotFound", "{}")
                     /\ raised[1].arg = Reply(trace[i]).status_message
                [] OTHER ->
                     /\ RaisedIs("UnexpectedError", "{}")
                     /\ raised[1].arg = Some(Reply(trace[i]))

\* a failure reply whose message is 'wai' has raised RedditError on the
\* first request
C4_Witness ==
    /\ RaisedIs("RedditError", "{}")
    /\ raised[1].arg = Some(MSG_NEAR)
    /\ Len(trace) = 1

\* -------------------------------------------------------------------- C5
\* C5 as stated: when every reply so far is the soft failure (status
\* failure, message with 'wait'), resolve has not ended with anything but
\* RetriesExceeded, raised when the attempt counter has reached
\* max_attempts.
C5_Original ==
    ( /\ pc = "raised"
      /\ \A i \in 1..Len(trace) :
            IsRequest(trace[i]) =>
                /\ HasReply(trace[i])
                /\ Reply(trace[i]).status = Some("failure")
                /\ Reply(trace[i]).data[2] \in {MSG_WAIT, MSG_WAIT_UPPER} )
    => /\ raised[1].cls = "RetriesExceeded"
       /\ attempt_number = max_attempts

\* -------------------------------------------------------------------- C6
\* the stream state and the feed address of a success reply
StateRead(e) == stream_info(DataRead(e)).state
AddressRead(e) == post_info(DataRead(e)).liveCommentsWebsocket

\* the reply of request e resolves to metadata (chat not disabled, a start
\* time is there) that says the stream is live: the IS_LIVE state on the
\* primary endpoint, any success on the fallback endpoint
IsLiveSuccess(e) ==
    /\ IsSuccess(e)
    /\ DataRead(e).chat_disabled \in {None, Some(FALSE)}
    /\ \/ stream_info(DataRead(e)).publish_at # None
       \/ stream_info(DataRead(e)).created # None
    /\ StateRead(e) = Some("IS_LIVE") \/ e.n % 2 = 1

\* the text t begins with wss://
BeginsWithWss(t) ==
    Len(t) >= 6 /\ SubSeq(t, 1, 6) = <<"w", "s", "s", ":", "/", "/">>

\* the reply of request e is a success whose chat is not disabled and whose
\* stream is live: IS_LIVE on the primary endpoint, any state on the
\* fallback endpoint
IsLiveReply(e) ==
    /\ IsSuccess(e)
    /\ DataRead(e).chat_disabled # Some(TRUE)
    /\ StateRead(e) = Some("IS_LIVE") \/ e.n % 2 = 1

\* C6: every live success whose feed address is there and does not begin
\* with wss:// ends getChat with the invalid-address RedditError for that
\* address, and no generator, socket or connection attempt exists at that
\* point.
C6_Original ==
    \A i \in 1..Len(trace) :
        ( /\ IsLiveReply(trace[i])
          /\ AddressRead(trace[i]) # None
          /\ ~BeginsWithWss(AddressRead(trace[i])[1]) )
        => /\ Last(i)
           /\ RaisedIs("RedditError", "Invalid websocket URL: {}")
           /\ raised[1].arg = AddressRead(trace[i])
           /\ NoFeed

\* the live reply with the address ws://h and no start time has ended
\* getChat with the TypeError of line 197
C6_TypeErrorReached ==
    /\ raised # None
    /\ raised[1].cls = "TypeError"
    /\ IsLiveReply(LastRequest)
    /\ AddressRead(LastRequest) = Some(URL_WS)

\* what lines 197-214 do: the invalid-address error is raised for the
\* address ws://h when the reply also carries a start time
C6_InvalidFeedAddress ==
    \A i \in 1..Len(trace) :
        (IsLiveSuccess(trace[i]) /\ AddressRead(trace[i]) = Some(URL_WS))
        => /\ Last(i)
           /\ RaisedIs("RedditError", "Invalid websocket URL: {}")
           /\ raised[1].arg = Some(URL_WS)
           /\ NoFeed

\* the invalid-address error has been raised for a live primary reply
C6_RaisedOnPrimary ==
    /\ RaisedIs("RedditError", "Invalid websocket URL: {}")
    /\ attempt_number = 0
    /\ StateRead(trace[Len(trace)]) = Some("IS_LIVE")
    /\ AddressRead(trace[Len(trace)]) = Some(URL_WS)

\* -------------------------------------------------------------------- C7
\* C7: a Chat and its generator exist only when the last reply is a live
\* success whose feed address is there and begins with wss://; and every
\* success reply whose chat is not disabled and whose stream is not live
\* ends getChat with the replay RedditError and no Chat.
C7_Original ==
    /\ (chat_item # None \/ gen_pc # "none")
       => /\ pc = "returned"
          /\ chat_item # None
          /\ chat_item[1].is_live = TRUE
          /\ IsLiveReply(LastRequest)
          /\ AddressRead(LastRequest) # None
          /\ socket_url = AddressRead(LastRequest)
          /\ BeginsWithWss(socket_url[1])
    /\ \A i \in 1..Len(trace) :
          ( /\ IsSuccess(trace[i])
            /\ DataRead(trace[i]).chat_disabled # Some(TRUE)
            /\ ~IsLiveReply(trace[i]) )
          => /\ Last(i)
             /\ RaisedIs("RedditError",
                         "Video ended. Chat replay not implemented yet.")
             /\ NoFeed

\* the reply of an ENDED stream with no start time has ended getChat with
\* the TypeError of line 197
C7_TypeErrorReached ==
    /\ raised # None
    /\ raised[1].cls = "TypeError"
    /\ attempt_number = 0
    /\ IsSuccess(LastRequest)
    /\ DataRead(LastRequest).chat_disabled # Some(TRUE)
    /\ StateRead(LastRequest) = Some("ENDED")

\* what lines 196-217 do: the two halves hold for the replies that also
\* carry a start time
C7_HandleOnlyWhenLive ==
    /\ (chat_item # None \/ gen_pc # "none")
       => /\ pc = "returned"
          /\ chat_item # None
          /\ chat_item[1].is_live = TRUE
          /\ IsLiveSuccess(LastRequest)
          /\ AddressRead(LastRequest) # None
          /\ socket_url = AddressRead(LastRequest)
          /\ Len(socket_url[1]) >= 6
          /\ SubSeq(socket_url[1], 1, 6) = <<"w", "s", "s", ":", "/", "/">>
    /\ \A i \in 1..Len(trace) :
          ( /\ IsSuccess(trace[i])
            /\ DataRead(trace[i]).chat_disabled \in {None, Some(FALSE)}
            /\ \/ stream_info(DataRead(trace[i])).publish_at # None
               \/ stream_info(DataRead(trace[i])).created # None
            /\ ~IsLiveSuccess(trace[i]) )
          => /\ Last(i)
             /\ RaisedIs("RedditError",
                         "Video ended. Chat replay not implemented yet.")
             /\ NoFeed

\* the replay error has been raised for an ENDED stream that has a wss://
\* feed address
C7_ReplayRaised ==
    /\ RaisedIs("RedditError", "Video ended. Chat replay not implemented yet.")
    /\ StateRead(trace[Len(trace)]) = Some("ENDED")
    /\ AddressRead(trace[Len(trace)]) = Some(URL_WSS)

\* -------------------------------------------------------------------- C8
IsFrame(e, raw) == e.ev = "recv" /\ e.arg[1] = "frame" /\ e.arg[2] = raw
IsKnownFrame(e) == IsFrame(e, RAW_NEW) \/ IsFrame(e, RAW_DELETE)
IsReset(e) == e.ev = "recv" /\ e.arg[1] = "ConnectionError"
FrameType(e) == e.arg[2][3]

\* every receive so far produced a well-formed frame of a known type or a
\* connection-class error, and no create_connection ran out of attempts
OnlyFramesAndResets ==
    /\ \A i \in 1..Len(trace) :
          trace[i].ev = "recv" => IsKnownFrame(trace[i]) \/ IsReset(trace[i])
    /\ gen_raised = None \/ gen_raised[1].cls # "RetriesExceeded"

\* cls names a class that line 273 or line 276 catches: the class recv_data
\* raises in the model, or a class thrown by the caller whose ancestry holds
\* ConnectionError or WebSocketException
IsConnectionClass(cls) ==
    \/ cls \in {"ConnectionError", "WebSocketException"}
    \/ \E m \in ThrownClasses :
          /\ m[1] = cls
          /\ \E k \in 1..Len(m) :
                m[k] \in {"ConnectionError", "WebSocketException"}

\* C8: while only known-type frames and connection-class errors arrive and
\* every reconnect succeeds, each frame is followed at once by its one
\* record, there is no other record, and once the body has started no
\* connection-class or timeout exception leaves the generator.
C8_OneRecordPerFrame ==
    OnlyFramesAndResets
    => /\ \A i \in 1..Len(trace) :
             IsKnownFrame(trace[i])
             => /\ i + 1 <= Len(trace)
                /\ trace[i + 1].ev = "yield"
                /\ trace[i + 1].arg[1].message_type = FrameType(trace[i])
       /\ \A i \in 1..Len(trace) :
             trace[i].ev = "yield" => i > 1 /\ IsKnownFrame(trace[i - 1])
       /\ CountEv(trace, "yield")
             = Cardinality({i \in 1..Len(trace) : IsKnownFrame(trace[i])})
       /\ \/ gen_raised = None
          \/ CountEv(trace, "connect") = 0
          \/ ~IsConnectionClass(gen_raised[1].cls)

\* frame, reset, reconnect, frame: two records and the generator is
\* suspended at its second yield
C8_Witness ==
    /\ OnlyFramesAndResets
    /\ gen_pc = "yielded"
    /\ CountEv(trace, "yield") = 2
    /\ nsockets = 2
    /\ \E i \in 1..Len(trace) : IsReset(trace[i])

\* -------------------------------------------------------------------- C9
\* C9: once the generator has finished, by whatever path, none of the
\* sockets it opened is open.
C9_SocketReleased ==
    gen_pc = "finished" => open_sockets = {}

\* the generator has finished after it opened a socket, lost it, and ran
\* out of attempts while reconnecting
C9_Witness ==
    /\ gen_pc = "finished"
    /\ nsockets >= 1
    /\ gen_raised # None
    /\ gen_raised[1].cls = "RetriesExceeded"

\* ------------------------------------------------------------------- C10
\* C10 as stated: a frame whose text is not JSON is dropped: nothing is
\* yielded or raised for it, the socket stays open and the generator goes
\* on receiving.
C10_Original ==
    \A i \in 1..Len(trace) :
        IsFrame(trace[i], RAW_TRUNCATED)
        => /\ gen_raised = None \/ gen_raised[1].cls # "JSONDecodeError"
           /\ Last(i) => (gen_pc = "recv" /\ ws \in open_sockets)
           /\ ~Last(i) => trace[i + 1].ev = "recv"

\* ------------------------------------------------------------------- C11
\* a decoded frame whose type is not one of the four accepted ones
IsUnknownFrame(e) == IsFrame(e, RAW_UNKNOWN) \/ IsFrame(e, RAW_NOTYPE)

AcceptedTypes == {"new_comment", "delete_comment", "remove_comment",
                  "update_comment_score"}

\* C11: a decoded frame of another type yields no record and raises
\* nothing, and the generator goes on receiving on the same open socket;
\* every record yielded has the type of the frame received just before it,
\* which is one of the four accepted types.
C11_UnknownTypeSkipped ==
    /\ \A i \in 1..Len(trace) :
          IsUnknownFrame(trace[i])
          => /\ Last(i) => /\ gen_pc = "recv"
                           /\ gen_raised = None
                           /\ ws = trace[i].n
                           /\ ws \in open_sockets
             /\ ~Last(i) => /\ trace[i + 1].ev = "recv"
                            /\ trace[i + 1].n = trace[i].n
    /\ \A i \in 1..Len(trace) :
          trace[i].ev = "yield"
          => /\ trace[i].arg[1].message_type \in AcceptedTypes
             /\ i > 1
             /\ trace[i - 1].ev = "recv"
             /\ trace[i - 1].arg[1] = "frame"
             /\ trace[i].arg[1].message_type = FrameType(trace[i - 1])

\* a frame of type ping and one without type were skipped, and the next
\* frame on the same socket was yielded
C11_Witness ==
    /\ Len(trace) >= 6
    /\ IsFrame(trace[Len(trace) - 3], RAW_UNKNOWN)
    /\ IsFrame(trace[Len(trace) - 2], RAW_NOTYPE)
    /\ IsFrame(trace[Len(trace) - 1], RAW_DELETE)
    /\ trace[Len(trace)].ev = "yield"
    /\ nsockets = 1
    /\ gen_pc = "yielded"

\* ------------------------------------------------------------------- C12
IsTimeout(e) == e.ev = "recv" /\ e.arg[1] = "timeout"

\* the connection attempt made last
LastConnect ==
    trace[CHOOSE i \in 1..Len(trace) :
              /\ trace[i].ev = "connect"
              /\ \A j \in (i + 1)..Len(trace) : trace[j].ev # "connect"]

\* C12: after a receive timeout nothing is yielded, raised or closed, no
\* connection attempt is made and the attempt counter of create_connection
\* is where the last connection left it; the next thing the generator does
\* is a receive on the same socket.
C12_TimeoutIsNotAnError ==
    \A i \in 1..Len(trace) :
        IsTimeout(trace[i])
        => /\ Last(i) => /\ gen_pc = "recv"
                         /\ gen_raised = None
                         /\ ws = trace[i].n
                         /\ ws \in open_sockets
                         /\ conn_attempt = LastConnect.n
           /\ ~Last(i) => /\ trace[i + 1].ev = "recv"
                          /\ trace[i + 1].n = trace[i].n

\* three timeouts in a row on the first socket, which is still open
C12_Witness ==
    /\ Len(trace) >= 3
    /\ IsTimeout(trace[Len(trace)])
    /\ IsTimeout(trace[Len(trace) - 1])
    /\ IsTimeout(trace[Len(trace) - 2])
    /\ gen_pc = "recv"
    /\ open_sockets = {1}

\* ------------------------------------------------------------------- C13
IsConnect(e) == e.ev = "connect"
ConnectFailed(e) == e.ev = "connect" /\ e.arg[2] = FALSE

\* connection attempt i continues the create_connection call of attempt
\* i - 2: that one failed and retry slept
ContinuesPhase(i) ==
    /\ i > 2
    /\ trace[i - 1].ev = "sleep"
    /\ ConnectFailed(trace[i - 2])

\* C13: the attempts of every create_connection call are numbered from 1,
\* whatever the resolver's attempt number and the attempts of earlier
\* calls; a call makes at most max_attempts of them, a failure below
\* max_attempts is followed by a sleep and the next attempt, and the
\* failure of attempt max_attempts ends the generator with RetriesExceeded:
\* no receive, record or connection attempt follows.
C13_FreshConnectBudget ==
    \A i \in 1..Len(trace) :
        IsConnect(trace[i])
        => /\ trace[i].n \in 1..max_attempts
           /\ IF ContinuesPhase(i)
              THEN trace[i].n = trace[i - 2].n + 1
              ELSE trace[i].n = 1
           /\ (ConnectFailed(trace[i]) /\ trace[i].n < max_attempts)
              => /\ i + 1 <= Len(trace)
                 /\ trace[i + 1].ev = "sleep"
                 /\ trace[i + 1].n = trace[i].n
                 /\ Last(i + 1) => (gen_pc = "connecting"
                                    /\ conn_attempt = trace[i].n + 1)
           /\ (ConnectFailed(trace[i]) /\ trace[i].n = max_attempts)
              => /\ gen_pc = "finished"
                 /\ gen_raised # None
                 /\ gen_raised[1].cls = "RetriesExceeded"
                 /\ \A j \in (i + 1)..Len(trace) : trace[j].ev = "close"

\* after a resolve that retried once, the first create_connection needed
\* two attempts, the socket was lost, and the second create_connection
\* failed twice: the generator has ended with RetriesExceeded
C13_Witness ==
    /\ attempt_number = 1
    /\ max_attempts = 2
    /\ gen_pc = "finished"
    /\ gen_raised # None
    /\ gen_raised[1].cls = "RetriesExceeded"
    /\ nsockets = 1
    /\ CountEv(trace, "connect") = 4

\* ------------------------------------------------------------------- C14
\* the known-type frames received on socket s, as <<type, body>> pairs in
\* the order of receipt
FramesOn(s) ==
    LET received == SelectSeq(trace, LAMBDA e : e.n = s /\ IsKnownFrame(e))
    IN  [j \in 1..Len(received) |->
            <<received[j].arg[2][3], received[j].arg[2][5].body>>]

\* the records yielded from socket s, as <<message_type, message>> pairs
\* in the order of emission
RecordsOn(s) ==
    LET yielded == SelectSeq(trace, LAMBDA e : e.n = s /\ e.ev = "yield")
    IN  [j \in 1..Len(yielded) |->
            <<yielded[j].arg[1].message_type, yielded[j].arg[1].info.message>>]

IsPrefix(a, b) == Len(a) <= Len(b) /\ \A j \in 1..Len(a) : a[j] = b[j]

\* C14: in every state and for every socket, the records emitted from it
\* are the known-type frames received on it, in the same order and none
\* twice; and no record comes before its frame: the event before a record
\* is the receipt of a known-type frame on the same socket.
C14_ReceiptOrder ==
    /\ \A s \in 1..nsockets : RecordsOn(s) = FramesOn(s)
    /\ \A i \in 1..Len(trace) :
          trace[i].ev = "yield"
          => /\ i > 1
             /\ IsKnownFrame(trace[i - 1])
             /\ trace[i - 1].n = trace[i].n

\* one socket delivered delete_comment, an unknown frame or a timeout, and
\* new_comment: two records in that order
C14_Witness ==
    /\ nsockets = 1
    /\ CountEv(trace, "recv") = 3
    /\ RecordsOn(1) = << <<"delete_comment", None>>,
                         <<"new_comment", Some("hi")>> >>
    /\ gen_pc = "yielded"

\* ------------------------------------------------------------------- C15
\* the created_utc of the payload of a received frame
CreatedUtc(e) == e.arg[2][5].created_utc

\* C15: the record of a known-type frame whose payload has created_utc = t
\* seconds carries timestamp = t * 1,000,000.
C15_TimestampMicros ==
    \A i \in 1..Len(trace) :
        (IsKnownFrame(trace[i]) /\ CreatedUtc(trace[i]) # None)
        => /\ i + 1 <= Len(trace)
           /\ trace[i + 1].ev = "yield"
           /\ trace[i + 1].arg[1].info.timestamp
                 = Some(CreatedUtc(trace[i])[1] * 1000 * 1000)

\* the frames with created_utc 2 and 1 were received and their records
\* carry 2000000 and 1000000
C15_Witness ==
    /\ \E i \in 1..Len(trace) :
          /\ trace[i].ev = "yield"
          /\ trace[i].arg[1].info.timestamp = Some(2000000)
          /\ IsFrame(trace[i - 1], RAW_NEW)
    /\ \E i \in 1..Len(trace) :
          /\ trace[i].ev = "yield"
          /\ trace[i].arg[1].info.timestamp = Some(1000000)
          /\ IsFrame(trace[i - 1], RAW_DELETE)

\* ------------------------------------------------------------------- C16
\* event i is the sleep of a retry of the resolver: it follows a request
IsResolveSleep(i) ==
    i > 1 /\ trace[i].ev = "sleep" /\ IsRequest(trace[i - 1])

\* the sleep after a transport or deserialization failure
IsTransportSleep(i) == IsResolveSleep(i) /\ ~HasReply(trace[i - 1])

\* the sleep after a soft failure
IsSoftSleep(i) == IsResolveSleep(i) /\ HasReply(trace[i - 1])

\* the retry cycles of the resolver so far: a sleep and the request after it
RetryCycles ==
    {i \in 1..Len(trace) :
        IsResolveSleep(i) /\ i < Len(trace) /\ IsRequest(trace[i + 1])}

\* C16: over one call of get_chat_by_stream_id the retry cycles of both
\* kinds, after a transport or deserialization failure and after a soft
\* failure, together stay within max_attempts
C16_Original == Cardinality(RetryCycles) <= max_attempts

\* the transport sleeps of logical attempt n before event i
TransportSleepsBefore(i, n) ==
    {j \in 1..(i - 1) : IsTransportSleep(j) /\ trace[j - 1].n = n}

\* what lines 152-156 and 219-224 do: the two kinds of failure are counted
\* by two counters. Transport
\* failures are counted from 1 inside each logical attempt, whatever
\* happened in the attempts before it, and allow max_attempts - 1 retry
\* cycles in each; soft failures are counted by the attempt number and are
\* retried while it is below max_attempts. RetriesExceeded is raised by
\* the failure of request max_attempts of one logical attempt. Together
\* the two kinds stay within 2 * max_attempts - 1 retry cycles.
C16_SeparateBudgets ==
    /\ \A i \in 1..Len(trace) :
          IsTransportSleep(i)
          => /\ trace[i].n
                   = 1 + Cardinality(TransportSleepsBefore(i, trace[i - 1].n))
             /\ trace[i].n <= max_attempts - 1
    /\ \A i \in 1..Len(trace) :
          IsSoftSleep(i)
          => /\ trace[i].n = trace[i - 1].n
             /\ trace[i].n < max_attempts
    /\ (raised # None /\ raised[1].cls = "RetriesExceeded")
       => Cardinality({i \in 1..Len(trace) :
                          /\ IsRequest(trace[i])
                          /\ ~HasReply(trace[i])
                          /\ trace[i].n = attempt_number}) = max_attempts
    /\ Cardinality(RetryCycles) <= 2 * max_attempts - 1

\* with max_attempts = 2: a transport failure, a soft failure and another
\* transport failure, each followed by a sleep and a new request, and the
\* call returns
C16_ThreeCycles ==
    /\ max_attempts = 2
    /\ pc = "returned"
    /\ Cardinality(RetryCycles) = 3
    /\ \E i \in 1..Len(trace) : IsSoftSleep(i)
    /\ \E i \in 1..Len(trace) : IsTransportSleep(i) /\ trace[i - 1].n = 1

\* ------------------------------------------------------------------- C17
\* the reply of request e is a success whose chat is not disabled, with a
\* start time and the feed address wss://h
ResolvesWithAddress(e) ==
    /\ IsSuccess(e)
    /\ DataRead(e).chat_disabled \in {None, Some(FALSE)}
    /\ \/ stream_info(DataRead(e)).publish_at # None
       \/ stream_info(DataRead(e)).created # None
    /\ AddressRead(e) = Some(URL_WSS)

ReturnedLive ==
    /\ pc = "returned"
    /\ chat_item # None
    /\ chat_item[1].is_live = TRUE

\* the reply of request e is a success whose chat is not disabled, with the
\* feed address wss://h
SuccessWithAddress(e) ==
    /\ IsSuccess(e)
    /\ DataRead(e).chat_disabled # Some(TRUE)
    /\ AddressRead(e) = Some(URL_WSS)

\* C17: every success reply whose chat is not disabled and whose feed
\* address is wss://h makes getChat, on an odd attempt, return a Chat with
\* is_live = TRUE whatever state it carries; on an even attempt getChat
\* returns that Chat exactly when the state is IS_LIVE.
C17_Original ==
    \A i \in 1..Len(trace) :
        (IsRequest(trace[i]) /\ SuccessWithAddress(trace[i]))
        => /\ trace[i] = LastRequest
           /\ trace[i].n % 2 = 1 => ReturnedLive
           /\ trace[i].n % 2 = 0
              => (ReturnedLive <=> StateRead(trace[i]) = Some("IS_LIVE"))

\* the fallback reply with the address wss://h and no start time has ended
\* getChat with the TypeError of line 197
C17_TypeErrorReached ==
    /\ raised # None
    /\ raised[1].cls = "TypeError"
    /\ attempt_number = 1
    /\ SuccessWithAddress(LastRequest)

\* what lines 196-217 do: such a reply that also carries a start time, on
\* an odd attempt, makes getChat return a Chat with is_live = TRUE whatever
\* state it carries; on an even attempt getChat returns that Chat exactly
\* when the state is IS_LIVE, and raises the replay error otherwise.
C17_FallbackIsLive ==
    \A i \in 1..Len(trace) :
        (IsRequest(trace[i]) /\ ResolvesWithAddress(trace[i]))
        => /\ trace[i] = LastRequest
           /\ trace[i].n % 2 = 1 => ReturnedLive
           /\ trace[i].n % 2 = 0
              => /\ ReturnedLive <=> StateRead(trace[i]) = Some("IS_LIVE")
                 /\ StateRead(trace[i]) # Some("IS_LIVE")
                    => RaisedIs("RedditError",
                                "Video ended. Chat replay not implemented yet.")

\* the fallback attempt received a post record whose state is ENDED and
\* getChat returned a live Chat
C17_EndedReturnedLive ==
    /\ attempt_number = 1
    /\ ReturnedLive
    /\ ResolvesWithAddress(LastRequest)
    /\ StateRead(LastRequest) = Some("ENDED")

\* ------------------------------------------------------------------- C18
\* the claim as stated: once getChat has returned the Chat, a connection
\* attempt has been made
C18_Original == pc = "returned" => CountEv(trace, "connect") >= 1

\* C18: the step in which getChat returns the Chat makes no connection
\* attempt; it leaves the generator created and not started, with no
\* socket. The first connection attempt is made by the first next() of the
\* caller on the generator.
C18_NoConnectionAtReturn ==
    [][ (pc = "request" /\ pc' = "returned")
        => /\ gen_pc' = "created"
           /\ nsockets' = 0
           /\ open_sockets' = {}
           /\ CountEv(trace', "connect") = 0
           /\ trace'[Len(trace')].ev = "request" ]_vars

\* getChat has returned the Chat and nothing has been connected
C18_Witness ==
    /\ pc = "returned"
    /\ chat_item # None
    /\ gen_pc = "created"
    /\ CountEv(trace, "connect") = 0
    /\ nsockets = 0

\* ------------------------------------------------------------------- C20
ConnectOk(e) == e.ev = "connect" /\ e.arg[2] = TRUE

\* the socket that the successful connection attempt at event j returned:
\* sockets are numbered in the order of their creation
SocketOf(j) == Cardinality({k \in 1..j : ConnectOk(trace[k])})

\* C20: at most one socket is open; a connection-class error is followed
\* at once by the close of the socket it came from, and when any
\* connection attempt is made every socket created before it has been
\* closed; every connection attempt goes to the address the generator was
\* created with; and no metadata request follows a connection attempt.
C20_OneSocketSameAddress ==
    /\ Cardinality(open_sockets) <= 1
    /\ open_sockets \subseteq {ws}
    /\ \A i \in 1..Len(trace) :
          IsReset(trace[i])
          => /\ i + 1 <= Len(trace)
             /\ trace[i + 1].ev = "close"
             /\ trace[i + 1].n = trace[i].n
    /\ \A j \in 1..Len(trace) :
          ConnectOk(trace[j])
          => LET socket == SocketOf(j)
             IN  \A i \in (j + 1)..Len(trace) :
                     IsConnect(trace[i])
                     => \E k \in (j + 1)..(i - 1) :
                            trace[k].ev = "close" /\ trace[k].n = socket
    /\ gen_pc # "none" => socket_url = AddressRead(LastRequest)
    /\ \A i \in 1..Len(trace) :
          IsConnect(trace[i]) => trace[i].arg[1] = socket_url
    /\ \A i \in 1..Len(trace) :
          IsRequest(trace[i])
          => \A j \in 1..(i - 1) : ~IsConnect(trace[j])

\* the first socket was lost, the first reconnect attempt failed and the
\* second one returned the socket that is now the only open one
C20_Witness ==
    /\ \E i \in 1..Len(trace) : IsReset(trace[i])
    /\ nsockets = 2
    /\ open_sockets = {2}
    /\ CountEv(trace, "connect") = 3
    /\ \E i \in 1..Len(trace) : ConnectFailed(trace[i]) /\ i > 2
                                 /\ trace[i - 1].ev = "close"

\* ------------------------------------------------------------------- C19
\* the post URL of every entry of the list, in list order
PostUrls(data) ==
    [j \in 1..Len(data) |->
        IF data[j].post = None THEN None ELSE data[j].post[1].url]

\* C19: generate_urls sends at most 30 requests; every request that fails
\* or has no list is followed by the next attempt while fewer than 30 have
\* failed; the 30th failure ends it with RetriesExceeded and nothing
\* yielded; the first list ends the requests, the values yielded are the
\* post URLs of its entries in list order, and the generator finishes when
\* all of them have been yielded.
C19_GenerateUrls ==
    /\ urls_requests <= 30
    /\ urls_requests = urls_failures + (IF urls_data = None THEN 0 ELSE 1)
    /\ (urls_data = None /\ urls_failures \in 1..29)
       => /\ urls_pc = "request"
          /\ urls_attempt = urls_failures + 1
          /\ urls_raised = None
    /\ urls_failures >= 30
       => /\ urls_failures = 30
          /\ urls_pc = "finished"
          /\ urls_raised = Some(RetriesExceeded(30))
          /\ urls_yielded = <<>>
          /\ urls_data = None
    /\ urls_raised # None => urls_failures = 30
    /\ urls_data # None
       => /\ urls_pc \in {"yielded", "finished", "closed"}
          /\ IsPrefix(urls_yielded, PostUrls(urls_data[1]))
          /\ urls_pc = "yielded" => Len(urls_yielded) >= 1
          /\ urls_pc = "finished" => urls_yielded = PostUrls(urls_data[1])
    /\ urls_data = None => urls_yielded = <<>>

\* 29 requests failed, the 30th returned a list of two entries, and the
\* generator has finished after yielding both URLs
C19_Witness ==
    /\ urls_requests = 30
    /\ urls_failures = 29
    /\ urls_data = Some(<<STREAM_B, STREAM_A>>)
    /\ urls_yielded = << Some("https://www.reddit.com/rpan/r/b"),
                         Some("https://www.reddit.com/rpan/r/a") >>
    /\ urls_pc = "finished"

\* all 30 requests failed
C19_Exhausted ==
    /\ urls_requests = 30
    /\ urls_raised # None
    /\ urls_raised[1].cls = "RetriesExceeded"

====
